---------------------------- MODULE Spec2Model ----------------------------
(***************************************************************************)
(* Verification model of the stdio transport of server.py (MCP Runtime    *)
(* v3.0): the tolerant Content-Length frame decoder read_packet, the      *)
(* reader loop that feeds the inbound channel, and the dispatcher side    *)
(* that takes messages from that channel and runs tool handlers.          *)
(*                                                                         *)
(* A byte is a string naming it ("LF" is 0x0A, "CR" is 0x0D, "xFF" is the *)
(* non-ASCII byte 0xFF, every other name is the ASCII character itself);  *)
(* a byte string is a sequence of bytes.                                   *)
(***************************************************************************)
EXTENDS Integers, Sequences, FiniteSets, TLC

LF == "LF"
CR == "CR"
SP == " "
TAB == "TAB"
COLON == ":"

\* bytes removed by str.strip() (ASCII whitespace)
Whitespace == {SP, TAB, CR, LF}

\* bytes dropped by bytes.decode("ascii", "ignore")
NonAscii == {"xFF"}

Digits == {"0", "1", "2", "3", "4", "5", "6", "7", "8", "9"}

DigitValue(d) ==
    CASE d = "0" -> 0 [] d = "1" -> 1 [] d = "2" -> 2 [] d = "3" -> 3
      [] d = "4" -> 4 [] d = "5" -> 5 [] d = "6" -> 6 [] d = "7" -> 7
      [] d = "8" -> 8 [] d = "9" -> 9

DigitOf(n) ==
    CASE n = 0 -> "0" [] n = 1 -> "1" [] n = 2 -> "2" [] n = 3 -> "3"
      [] n = 4 -> "4" [] n = 5 -> "5" [] n = 6 -> "6" [] n = 7 -> "7"
      [] n = 8 -> "8" [] n = 9 -> "9"

\* str(n) for a non-negative integer, as the f-string of the writer formats it
RECURSIVE Decimal(_)
Decimal(n) == IF n < 10 THEN <<DigitOf(n)>>
              ELSE Decimal(n \div 10) \o <<DigitOf(n % 10)>>

-----------------------------------------------------------------------------
(* Pure helpers of read_packet *)

\* a_stdin.readline(): the bytes up to and including the first LF, or all
\* remaining bytes when no LF is left; b"" exactly at end of stream
readline(s) ==
    IF \E i \in 1..Len(s) : s[i] = LF
    THEN SubSeq(s, 1, CHOOSE i \in 1..Len(s) :
                         s[i] = LF /\ \A j \in 1..(i-1) : s[j] # LF)
    ELSE s

Drop(s, n) == SubSeq(s, n + 1, Len(s))

endswith(s, suffix) ==
    /\ Len(s) >= Len(suffix)
    /\ SubSeq(s, Len(s) - Len(suffix) + 1, Len(s)) = suffix

\* "Normalize line ending"
normalize_line(line) ==
    IF endswith(line, <<CR, LF>>) THEN SubSeq(line, 1, Len(line) - 2)
    ELSE IF endswith(line, <<LF>>) THEN SubSeq(line, 1, Len(line) - 1)
    ELSE line

HasColon(line) == \E i \in 1..Len(line) : line[i] = COLON

FirstColon(line) ==
    CHOOSE i \in 1..Len(line) :
        line[i] = COLON /\ \A j \in 1..(i-1) : line[j] # COLON

\* line.split(b":", 1)
split_key(line) == SubSeq(line, 1, FirstColon(line) - 1)
split_value(line) == SubSeq(line, FirstColon(line) + 1, Len(line))

IsAscii(b) == b \notin NonAscii
decode_ascii_ignore(s) == SelectSeq(s, IsAscii)

RECURSIVE lstrip(_)
lstrip(s) == IF s # <<>> /\ s[1] \in Whitespace THEN lstrip(Tail(s)) ELSE s

RECURSIVE rstrip(_)
rstrip(s) == IF s # <<>> /\ s[Len(s)] \in Whitespace
             THEN rstrip(SubSeq(s, 1, Len(s) - 1)) ELSE s

strip(s) == rstrip(lstrip(s))

LowerOf ==
    [C |-> "c", L |-> "l", J |-> "j", X |-> "x"]

lower_byte(b) == IF b \in DOMAIN LowerOf THEN LowerOf[b] ELSE b
lower(s) == [i \in 1..Len(s) |-> lower_byte(s[i])]

\* (each intermediate result is bound to a name, so that it is computed once)
header_key(line) ==
    CHOOSE r \in { lower(t) : t \in { strip(d) :
                    d \in { decode_ascii_ignore(k) :
                    k \in {split_key(line)} } } } : TRUE
header_value(line) ==
    CHOOSE r \in { strip(d) : d \in { decode_ascii_ignore(v) :
                    v \in {split_value(line)} } } : TRUE

\* headers[k] = v on a dict modelled as a function
dict_set(h, k, v) ==
    [x \in DOMAIN h \cup {k} |-> IF x = k THEN v ELSE h[x]]

EmptyDict == [x \in {} |-> <<>>]

content_length_key ==
    <<"c", "o", "n", "t", "e", "n", "t", "-", "l", "e", "n", "g", "t", "h">>

\* headers.get("content-length"): present is FALSE for None
headers_get(h) ==
    IF content_length_key \in DOMAIN h
    THEN [present |-> TRUE, str |-> h[content_length_key]]
    ELSE [present |-> FALSE, str |-> <<>>]

-----------------------------------------------------------------------------
(* int(length_str) *)

IsDigit(b) == b \in Digits

RECURSIVE strip_zeros(_)
strip_zeros(ds) == IF ds # <<>> /\ ds[1] = "0" THEN strip_zeros(Tail(ds)) ELSE ds

\* the literal after an optional sign: digits, single underscores allowed
\* between digits
IsIntLiteral(r) ==
    /\ r # <<>>
    /\ IsDigit(r[1])
    /\ IsDigit(r[Len(r)])
    /\ \A i \in 1..Len(r) : IsDigit(r[i]) \/ r[i] = "_"
    /\ \A i \in 1..(Len(r) - 1) : ~(r[i] = "_" /\ r[i+1] = "_")

\* int(s): ok is FALSE for ValueError; otherwise the sign and the
\* significant decimal digits of the magnitude (<<>> for zero)
int_parse(s) ==
    LET t == strip(s)
        signed == t # <<>> /\ t[1] \in {"+", "-"}
        r == IF signed THEN Tail(t) ELSE t
    IN  IF IsIntLiteral(r)
        THEN [ok |-> TRUE,
              neg |-> (signed /\ t[1] = "-" /\ strip_zeros(SelectSeq(r, IsDigit)) # <<>>),
              mag |-> strip_zeros(SelectSeq(r, IsDigit))]
        ELSE [ok |-> FALSE, neg |-> FALSE, mag |-> <<>>]

RECURSIVE DecValue(_)
DecValue(ds) == IF ds = <<>> THEN 0
                ELSE 10 * DecValue(SubSeq(ds, 1, Len(ds) - 1)) + DigitValue(ds[Len(ds)])

\* sys.maxsize = 2^63 - 1, the largest size the buffered read accepts
SsizeMaxDigits ==
    <<"9", "2", "2", "3", "3", "7", "2", "0", "3", "6", "8", "5", "4", "7", "7",
      "5", "8", "0", "7">>

RECURSIVE LexGreater(_, _)
LexGreater(a, b) ==
    IF a = <<>> THEN FALSE
    ELSE IF DigitValue(a[1]) # DigitValue(b[1])
         THEN DigitValue(a[1]) > DigitValue(b[1])
         ELSE LexGreater(Tail(a), Tail(b))

ExceedsSsize(mag) ==
    \/ Len(mag) > Len(SsizeMaxDigits)
    \/ Len(mag) = Len(SsizeMaxDigits) /\ LexGreater(mag, SsizeMaxDigits)


\* a_stdin.read(length): raised names the exception of the buffered read
\* ("" for none); a size of -1 reads to end of stream, any other negative size
\* is refused with ValueError, a size beyond sys.maxsize with OverflowError
stdin_read(s, len) ==
    IF ExceedsSsize(len.mag)
    THEN [raised |-> "OverflowError", body |-> <<>>, rest |-> s]
    ELSE IF len.neg /\ len.mag # <<"1">>
    THEN [raised |-> "ValueError", body |-> <<>>, rest |-> s]
    ELSE IF len.neg
    THEN [raised |-> "", body |-> s, rest |-> <<>>]
    ELSE LET n == DecValue(len.mag)
             k == IF n < Len(s) THEN n ELSE Len(s)
         IN  [raised |-> "", body |-> SubSeq(s, 1, k), rest |-> Drop(s, k)]

\* the int the code compares len(body) with (only for sizes the read accepted)
length_value(len) == IF len.neg THEN 0 - DecValue(len.mag) ELSE DecValue(len.mag)

\* "if not body or len(body) < length"
is_truncated(body, len) == body = <<>> \/ Len(body) < length_value(len)

-----------------------------------------------------------------------------
(* Payload parsing in reader: body.decode("utf-8") and                      *)
(* JSONRPCMessage.model_validate_json.  The grammar of JSON-RPC messages is *)
(* the pydantic library's; here a message is a byte string "{ ... }" of     *)
(* ASCII bytes, every other payload fails validation.                       *)

decodes_utf8(body) == \A i \in 1..Len(body) : body[i] \notin NonAscii

model_validate_json(body) ==
    /\ Len(body) >= 2
    /\ body[1] = "{"
    /\ body[Len(body)] = "}"

parses(body) == decodes_utf8(body) /\ model_validate_json(body)

-----------------------------------------------------------------------------
(* The writer's encoding of a payload (header + payload)                 *)

ContentLengthName ==
    <<"C", "o", "n", "t", "e", "n", "t", "-", "L", "e", "n", "g", "t", "h">>

\* a header block holding one Content-Length line with value v
header_block(v) == ContentLengthName \o <<COLON, SP>> \o v \o <<CR, LF, CR, LF>>

encode(payload) == header_block(Decimal(Len(payload))) \o payload

-----------------------------------------------------------------------------
(* Input streams: concatenations of at most MaxSegs segments *)

MaxSegs == 3

Seg(k, b, p) == [kind |-> k, bytes |-> b, payload |-> p]

\* non-header garbage: a terminated noise line, a stray token without a line
\* terminator, a blank line, a header line of another name
NoiseBytes ==
    { <<"J", "U", "N", "K", LF>>, <<"?">>, <<CR, LF>>, <<"X", COLON, "y", LF>> }

NoiseSegs == { Seg("noise", b, <<>>) : b \in NoiseBytes }

Payloads ==
    { <<>>, <<"{", "}">>, <<"{", "a", "}">>, <<"a">>, <<"{", "xFF", "}">> }

FrameSegs == { Seg("frame", encode(p), p) : p \in Payloads }

\* 10^19, which exceeds sys.maxsize
HugeLength ==
    <<"1">> \o [i \in 1..19 |-> "0"]

\* Content-Length values of header blocks that come without their body
HeaderValues ==
    { <<"3">>, <<"-", "1">>, <<"-", "2">>, <<"a", "b">>, <<>>, HugeLength }

HeaderSegs == { Seg("header", header_block(v), v) : v \in HeaderValues }

\* a piece of a payload
FragmentSegs == { Seg("fragment", <<"{">>, <<>>) }

Segments == NoiseSegs \cup FrameSegs \cup HeaderSegs \cup FragmentSegs

RECURSIVE Flatten(_)
Flatten(ss) == IF ss = <<>> THEN <<>> ELSE Head(ss).bytes \o Flatten(Tail(ss))

RECURSIVE SeqsUpTo(_, _)
SeqsUpTo(S, n) ==
    IF n = 0 THEN {<<>>}
    ELSE LET shorter == SeqsUpTo(S, n - 1)
         IN  shorter \cup { Append(q, x) : q \in shorter, x \in S }

Inputs == SeqsUpTo(Segments, MaxSegs)

\* the callers of _get_embed_model (tool calls that need an embedding)
MaxCallers == 3
Callers == 1..MaxCallers

\* the value None of the global _embed_model (objects are numbered from 1)
NoModel == [model |-> 0]

\* a call of _get_embed_model that has not ended
NoOutcome == [kind |-> "none"]

\* results of read_packet: a payload, or None (end of stream)
Some(p) == [none |-> FALSE, body |-> p]
None == [none |-> TRUE, body |-> <<>>]

-----------------------------------------------------------------------------
VARIABLES
    segs,          \* the segments the input stream was made of (never changes)
    stdin,         \* bytes of sys.stdin.buffer not read yet; then end of stream
    pc,            \* where the reader task is suspended
    headers,       \* read_packet's dict of the current header block
    length,        \* read_packet's parsed Content-Length, while the body is read
    returned,      \* what the calls of read_packet returned so far
    raised,        \* the exception that ended the reader ("" for none)
    sending,       \* the message send_stream.send is suspended on
    send_closed,   \* send_stream is closed (left "async with send_stream")
    log,           \* what the transport logged so far
    received,      \* messages the dispatcher took from recv_stream
    pending,       \* handler calls the dispatcher has spawned, not yet started
    running,       \* a tool handler is executing on the event-loop thread
    completed,     \* handler calls that returned
    stdin_eof,     \* the peer has closed its end of stdin
    write_chan,    \* the message write_stream.send is suspended on
    write_closed,  \* the send end of write_stream is closed
    writer_pc,     \* where the writer task is suspended
    stdout,        \* the byte strings handed to a_stdout.write, in order
    flushed,       \* how many of them a_stdout.flush has pushed out
    submitted,     \* messages submitted to write_stream so far
    writer_raised, \* the exception that ended the writer ("" for none)
    write_recv_open, \* write_recv, the receive end of write_stream, is open
    send_broken,   \* sends on write_stream that raised BrokenResourceError at once
    embed_model,   \* the module global _embed_model
    call_pc,       \* where each caller of _get_embed_model is
    loads,         \* calls of SentenceTransformer(EMBED_MODEL_NAME) so far
    loading,       \* calls of SentenceTransformer(...) in progress: <<caller, n>>
    outcome,       \* what each call of _get_embed_model gave its caller
    tried,         \* per caller: how its calls of SentenceTransformer ended
    sleeps,        \* per caller: the time.sleep calls of its _get_embed_model
    started,       \* per caller: the value of loads when its tool call began
    plan,          \* how the n-th call of SentenceTransformer(...) will end
    store,         \* the Redis server as the network shows it now
    probe_pc,      \* where _check_redis_connection is
    ping_result,   \* how redis_client.ping of the probe ended ("" before)
    MEMORY_ENABLED, \* the module global MEMORY_ENABLED
    redis_client,  \* the module global redis_client
    transport_up,  \* main has entered _stdio_server: reader and writer run
    main_raised,   \* the exception that left _check_redis_connection ("")
    pings,         \* calls of redis_client.ping so far
    last           \* the latest tool call: tool, steps it took, result

\* the reader, the dispatcher and the handlers
rvars == <<segs, stdin, pc, headers, length, returned, raised, sending,
           send_closed, log, received, pending, running, completed>>

\* the writer and its channel
wvars == <<write_chan, write_closed, writer_pc, stdout, flushed, submitted,
           writer_raised, write_recv_open, send_broken>>

\* the lazily loaded embedding model and its callers
gvars == <<embed_model, call_pc, loads, loading, outcome, tried, sleeps,
           started, plan>>

\* the optional store, its startup probe and the tool calls
svars == <<store, probe_pc, ping_result, MEMORY_ENABLED, redis_client,
           transport_up, main_raised, pings, last>>

vars == <<rvars, stdin_eof, wvars, gvars, svars>>

NoLength == [ok |-> FALSE, neg |-> FALSE, mag |-> <<>>]

\* the streams of _stdio_server as created, the reader not yet run
reader_start ==
    /\ pc = "readline"
    /\ headers = EmptyDict
    /\ length = NoLength
    /\ returned = <<>>
    /\ raised = ""
    /\ sending = <<>>
    /\ send_closed = FALSE
    /\ log = <<>>
    /\ received = <<>>
    /\ pending = 0
    /\ running = FALSE
    /\ completed = 0

\* write_stream as created, the writer not yet run, nothing written
writer_start ==
    /\ write_chan = <<>>
    /\ write_closed = FALSE
    /\ writer_pc = "receive"
    /\ stdout = <<>>
    /\ flushed = 0
    /\ submitted = <<>>
    /\ writer_raised = ""
    /\ write_recv_open = TRUE
    /\ send_broken = 0

\* "_embed_model: Optional[SentenceTransformer] = None", nobody calling
guard_start ==
    /\ embed_model = NoModel
    /\ call_pc = [c \in Callers |-> "idle"]
    /\ loads = 0
    /\ loading = {}
    /\ outcome = [c \in Callers |-> NoOutcome]
    /\ tried = [c \in Callers |-> <<>>]
    /\ sleeps = [c \in Callers |-> <<>>]
    /\ started = [c \in Callers |-> 0]

\* the redis.Redis object made at import (no connection yet)
Client == "redis.Redis"
NoClient == "None"

\* no tool was called yet
NoCall == [tool |-> "", steps |-> <<>>, result |-> [kind |-> "none"]]

\* the module as imported: "MEMORY_ENABLED = False", the client object made,
\* main not yet run
store_start ==
    /\ probe_pc = "idle"
    /\ ping_result = ""
    /\ MEMORY_ENABLED = FALSE
    /\ redis_client = Client
    /\ transport_up = FALSE
    /\ main_raised = ""
    /\ pings = 0
    /\ last = NoCall

\* the whole input is already in the pipe and the peer has closed it
Init ==
    /\ segs \in Inputs
    /\ stdin = Flatten(segs)
    /\ stdin_eof = TRUE
    /\ reader_start
    /\ writer_start
    /\ guard_start
    /\ plan = <<>>
    /\ store = "up"
    /\ store_start

-----------------------------------------------------------------------------
(* The reader task.  It is suspended at one of its awaits:                 *)
(*   "readline"  a_stdin.readline() in read_packet                         *)
(*   "read"      a_stdin.read(length) in read_packet                       *)
(*   "send"      send_stream.send(SessionMessage(msg))                     *)
(*   "done"      the task has ended                                        *)
(* A coroutine runs on the event-loop thread of asyncio.run, so it only    *)
(* resumes while no tool handler occupies that thread.                     *)

\* tool handlers that run in worker threads never occupy the event loop
handlers_in_threads == TRUE

loop_free == ~running

\* a log record: the message and its argument
Logged(msg, arg) == <<[msg |-> msg, arg |-> arg]>>

\* what the end of a header block decides: "skip" (no usable Content-Length,
\* keep scanning) or "read" the body with the parsed length
block_end(h) ==
    LET length_str == headers_get(h)
    IN  IF ~length_str.present \/ length_str.str = <<>>
        THEN [do |-> "skip", len |-> NoLength,
              log |-> Logged("Skipping non-framed input (no Content-Length).", <<>>)]
        ELSE IF ~int_parse(length_str.str).ok
        THEN [do |-> "skip", len |-> NoLength,
              log |-> Logged("Skipping invalid Content-Length", length_str.str)]
        ELSE [do |-> "read", len |-> int_parse(length_str.str), log |-> <<>>]

\* the header dict after one non-empty line
header_line(h, line) ==
    IF HasColon(line)
    THEN CHOOSE r \in { dict_set(h, kv[1], kv[2]) :
                        kv \in {<<header_key(line), header_value(line)>>} } : TRUE
    ELSE h

\* the dict is not emptied: the next block starts with the old headers
stale_headers(h) == h

\* the headers a new header block starts with ("headers = {}")
fresh_headers(h) == EmptyDict

\* a reader that ends without leaving "async with send_stream": the send end
\* stays open
reader_ends_open(exc, said) ==
    /\ pc' = "done"
    /\ raised' = exc
    /\ send_closed' = send_closed
    /\ log' = log \o said
                \o (IF exc = "" THEN <<>> ELSE Logged("Reader error", <<exc>>))

\* the reader leaves its loop and "async with send_stream": by break after
\* read_packet returned None (exc is ""), or by the exception exc, which
\* "except Exception" logs as a reader error
reader_ends(exc, said) ==
    /\ pc' = "done"
    /\ raised' = exc
    /\ send_closed' = TRUE
    /\ log' = log \o said
                \o (IF exc = "" THEN <<>> ELSE Logged("Reader error", <<exc>>))

\* a_stdin.readline() returns once a whole line is in the pipe or the peer
\* has closed it; until then the reader stays suspended
readline_ready == stdin_eof \/ \E i \in 1..Len(stdin) : stdin[i] = LF

\* a_stdin.read(length) returns once length bytes are in the pipe or the peer
\* has closed it (a size the read rejects raises at once)
read_ready ==
    IF stdin_eof \/ stdin_read(stdin, length).raised # ""
    THEN TRUE
    ELSE /\ length_value(length) >= 0
         /\ Len(stdin) >= length_value(length)

\* one readline of read_packet and what follows it up to the next await
read_packet_readline ==
    /\ pc = "readline"
    /\ loop_free
    /\ readline_ready
    /\ \E raw \in {readline(stdin)} : \E line \in {normalize_line(raw)} :
           IF raw = <<>>
           THEN /\ returned' = Append(returned, None)
                /\ reader_ends("", <<>>)
                /\ UNCHANGED <<stdin, headers, length>>
           ELSE /\ stdin' = Drop(stdin, Len(raw))
                /\ UNCHANGED <<returned, raised, send_closed>>
                /\ IF line # <<>>
                   THEN /\ headers' = header_line(headers, line)
                        /\ UNCHANGED <<pc, length, log>>
                   ELSE IF block_end(headers).do = "skip"
                   THEN /\ headers' = fresh_headers(headers)
                        /\ log' = log \o block_end(headers).log
                        /\ UNCHANGED <<pc, length>>
                   ELSE /\ pc' = "read"
                        /\ length' = block_end(headers).len
                        /\ UNCHANGED <<headers, log>>
    /\ UNCHANGED <<segs, sending, received, pending, running, completed>>
    /\ UNCHANGED <<stdin_eof, wvars, gvars>>
    /\ UNCHANGED svars

\* a reader whose send returns at once, the message left in a buffer
on_body_buffered(body) ==
    IF parses(body)
    THEN /\ pc' = "readline"
         /\ sending' = body
         /\ UNCHANGED log
    ELSE /\ pc' = "readline"
         /\ log' = log \o Logged("Failed to parse JSON-RPC message", body)
         /\ UNCHANGED sending

\* what the reader does with a payload read_packet returned: send it on, or
\* log the parse failure and go on with the next packet
on_body(body) ==
    IF parses(body)
    THEN /\ pc' = "send"
         /\ sending' = body
         /\ UNCHANGED log
    ELSE /\ pc' = "readline"
         /\ log' = log \o Logged("Failed to parse JSON-RPC message", body)
         /\ UNCHANGED sending

\* the body read of read_packet and what follows it up to the next await
read_packet_read ==
    /\ pc = "read"
    /\ loop_free
    /\ read_ready
    /\ LET r == stdin_read(stdin, length)
       IN  IF r.raised # ""
           THEN /\ reader_ends(r.raised, <<>>)
                /\ UNCHANGED <<stdin, returned, sending>>
           ELSE /\ stdin' = r.rest
                /\ IF is_truncated(r.body, length)
                   THEN /\ returned' = Append(returned, None)
                        /\ reader_ends("", Logged("Truncated body from stdin", <<>>))
                        /\ UNCHANGED sending
                   ELSE /\ returned' = Append(returned, Some(r.body))
                        /\ on_body(r.body)
                        /\ UNCHANGED <<raised, send_closed>>
    /\ headers' = fresh_headers(headers)
    /\ length' = NoLength
    /\ UNCHANGED <<segs, received, pending, running, completed>>
    /\ UNCHANGED <<stdin_eof, wvars, gvars>>
    /\ UNCHANGED svars

-----------------------------------------------------------------------------
(* The dispatcher side (mcp._mcp_server.run on recv_stream) and the tool   *)
(* handlers it calls.                                                      *)

\* the dispatcher takes the message the reader is sending (the stream has
\* capacity 0: send returns when the message is received) and spawns the call
dispatcher_receive ==
    /\ pc = "send"
    /\ loop_free
    /\ received' = Append(received, sending)
    /\ pending' = pending + 1
    /\ sending' = <<>>
    /\ pc' = "readline"
    /\ UNCHANGED <<segs, stdin, headers, length, returned, raised, send_closed,
                   log, running, completed>>
    /\ UNCHANGED <<stdin_eof, wvars, gvars>>
    /\ UNCHANGED svars

\* a tool handler (a plain def, such as one that ends in _get_embed_model)
\* starts executing on the event-loop thread
handler_call ==
    /\ pending > 0
    /\ loop_free
    /\ pending' = pending - 1
    /\ running' = TRUE
    /\ UNCHANGED <<segs, stdin, pc, headers, length, returned, raised, sending,
                   send_closed, log, received, completed>>
    /\ UNCHANGED <<stdin_eof, wvars, gvars>>
    /\ UNCHANGED svars

\* the handler returns
handler_return ==
    /\ running
    /\ running' = FALSE
    /\ completed' = completed + 1
    /\ UNCHANGED <<segs, stdin, pc, headers, length, returned, raised, sending,
                   send_closed, log, received, pending>>
    /\ UNCHANGED <<stdin_eof, wvars, gvars>>
    /\ UNCHANGED svars

Next ==
    \/ read_packet_readline
    \/ read_packet_read
    \/ dispatcher_receive
    \/ handler_call
    \/ handler_return

Spec == Init /\ [][Next]_vars

-----------------------------------------------------------------------------
(* Vocabulary of the properties *)

IsGarbageSeg(sg) == sg.kind \in {"noise", "fragment"}
IsNoiseLine(sg) == sg.kind = "noise" /\ sg.bytes[Len(sg.bytes)] = LF
IsFrameSeg(sg) == sg.kind = "frame"

Last(q) == q[Len(q)]

\* the payloads of the frames among the segments ss, in stream order
RECURSIVE FramePayloads(_)
FramePayloads(ss) ==
    IF ss = <<>> THEN <<>>
    ELSE (IF IsFrameSeg(Head(ss)) THEN <<Head(ss).payload>> ELSE <<>>)
         \o FramePayloads(Tail(ss))

AsReturned(ps) == [i \in 1..Len(ps) |-> Some(ps[i])]

\* the next line of the input is the empty line that ends a header block
blank_line_next ==
    /\ pc = "readline"
    /\ readline(stdin) # <<>>
    /\ normalize_line(readline(stdin)) = <<>>

\* payloads read_packet returned so far (its None results left out)
frames_returned == Cardinality({i \in 1..Len(returned) : ~returned[i].none})

-----------------------------------------------------------------------------
\* C1: for every input made of non-header garbage (with or without blank
\* lines, with or without a final line terminator) immediately followed by
\* one valid frame, read_packet returns exactly that frame's payload.
C1_GarbageThenFrame ==
    ( /\ pc = "done"
      /\ Len(segs) >= 2
      /\ IsFrameSeg(Last(segs))
      /\ \A i \in 1..(Len(segs) - 1) : IsGarbageSeg(segs[i]) )
    => ( /\ returned # <<>>
         /\ returned[1] = Some(Last(segs).payload) )

\* C2: round trip: for every payload P, of every length from 0 upward,
\* read_packet on the writer's encoding of P returns exactly P.
C2_RoundTrip ==
    (pc = "done" /\ Len(segs) = 1 /\ IsFrameSeg(segs[1]))
    => returned = <<Some(segs[1].payload), None>>

\* the body read is due with fewer bytes left in the input than the
\* non-negative Content-Length the header block declared
body_short ==
    /\ pc = "read"
    /\ ~length.neg
    /\ (ExceedsSsize(length.mag) \/ Len(stdin) < DecValue(length.mag))

\* C3: when a header block declares Content-Length N and the input ends after
\* fewer than N body bytes, read_packet returns None without raising, the
\* reader loop ends by its break, and no partial payload is sent.
C3_Truncation ==
    [][ (body_short /\ read_packet_read)
        => ( /\ pc' = "done"
             /\ raised' = ""
             /\ returned' = Append(returned, None)
             /\ send_closed'
             /\ sending' = sending
             /\ received' = received ) ]_vars

\* C4: the reader stops only at end of stream: no frame that is completely
\* present in the input, whatever its declared non-negative length, makes the
\* reader stop while more input is still available.
C4_StopsOnlyAtEof ==
    [][ ( /\ read_packet_read
          /\ pc = "read"
          /\ ~length.neg
          /\ ~ExceedsSsize(length.mag)
          /\ DecValue(length.mag) < Len(stdin) )
        => pc' # "done" ]_vars

\* the value is not a non-negative decimal integer: empty, non-numeric text,
\* or a negative number
not_nonneg_integer(v) == v = <<>> \/ \E i \in 1..Len(v) : v[i] \notin Digits

\* C5: a header block whose content-length value is not a non-negative
\* decimal integer never yields a frame and never raises: read_packet reads
\* no body for it, discards it and resumes header scanning.
C5_BadLengthDiscarded ==
    [][ ( /\ read_packet_readline
          /\ blank_line_next
          /\ content_length_key \in DOMAIN headers
          /\ not_nonneg_integer(headers[content_length_key]) )
        => ( /\ pc' = "readline"
             /\ headers' = EmptyDict
             /\ returned' = returned
             /\ raised' = "" ) ]_vars

\* C6: for an input of optional noise lines followed by any sequence of valid
\* frames, successive decodes return the payloads in stream order, each
\* exactly once, and then the end-of-stream signal.
C6_FramesInOrder ==
    ( /\ pc = "done"
      /\ \E k \in 0..(Len(segs) - 1) :
            /\ \A i \in 1..k : IsNoiseLine(segs[i])
            /\ \A i \in (k + 1)..Len(segs) : IsFrameSeg(segs[i]) )
    => returned = AsReturned(FramePayloads(segs)) \o <<None>>

\* C7: a header block that ends without any content-length header never
\* yields a frame: no body is read for it, scanning goes on with the next
\* line, and the headers collected in it are not carried into the next block.
C7_NoContentLengthNoFrame ==
    [][ ( /\ read_packet_readline
          /\ blank_line_next
          /\ content_length_key \notin DOMAIN headers )
        => ( /\ pc' = "readline"
             /\ headers' = EmptyDict
             /\ returned' = returned
             /\ stdin' = Drop(stdin, Len(readline(stdin)))
             /\ UNCHANGED <<sending, received, raised, send_closed>> ) ]_vars

\* a block that had collected a header of another name was just discarded
C7_Witness ==
    /\ Len(segs) >= 2
    /\ segs[1].bytes = <<"X", COLON, "y", LF>>
    /\ segs[2].bytes = <<CR, LF>>
    /\ Len(stdin) = Len(Flatten(segs)) - 6
    /\ pc = "readline"
    /\ headers = EmptyDict
    /\ Len(log) = 1
    /\ log[1].msg = "Skipping non-framed input (no Content-Length)."
    /\ returned = <<>>

\* C8: after a correctly framed payload that fails JSON-RPC parsing the reader
\* loop does not exit: every later valid frame is still decoded and sent to
\* the inbound channel, in order.
C8_ParseFailureContinues ==
    ( /\ pc = "done"
      /\ Len(segs) >= 2
      /\ \A i \in 1..Len(segs) : IsFrameSeg(segs[i])
      /\ ~parses(segs[1].payload) )
    => received = SelectSeq(FramePayloads(segs), parses)

\* C9: every correctly framed payload that fails to parse is reported to the
\* dispatcher as a per-message error, so each complete frame results in
\* exactly one item reaching the dispatcher.
C9_OneItemPerFrame ==
    pc = "done" => Len(received) = frames_returned

\* C10: while a request handler is still running, the reader can still read
\* and decode the next inbound frame: with the handler of a received message
\* running and the next frame waiting in the input, the reader's next read
\* step can be taken.
C10_ReaderNotStalled ==
    ( /\ running
      /\ \A i \in 1..Len(segs) : IsFrameSeg(segs[i])
      /\ pc = "readline"
      /\ stdin # <<>> )
    => ENABLED read_packet_readline

-----------------------------------------------------------------------------
(* The writer task, the channel write_stream / write_recv that feeds it,   *)
(* and the session (mcp._mcp_server.run) that submits outbound messages.   *)
(* The writer is suspended at one of its awaits:                           *)
(*   "receive"  the async for over write_recv                              *)
(*   "written"  a_stdout.write(header + payload) was issued; flush is next *)
(*   "done"     the task has ended                                         *)
(* A text is a sequence of characters; "U+00E9" is a character outside     *)
(* ASCII, which UTF-8 encodes as the two bytes C3 A9.                      *)

MaxOut == 2
MaxTSegs == 1

\* str.encode("utf-8")
utf8_char(c) == IF c = "U+00E9" THEN <<"xC3", "xA9">> ELSE <<c>>

RECURSIVE utf8_encode(_)
utf8_encode(text) ==
    IF text = <<>> THEN <<>>
    ELSE utf8_char(Head(text)) \o utf8_encode(Tail(text))

\* a SessionMessage, by the JSON text its message serialises to
SessionMessage(text) == [json |-> text]

OutTexts == { <<"{", "}">>, <<"{", "a", "}">>, <<"{", "U+00E9", "}">> }
OutMessages == { SessionMessage(t) : t \in OutTexts }

\* sess.message.model_dump_json(by_alias=True, exclude_none=True)
model_dump_json(sess) == sess.json

\* payload = ... .encode("utf-8")
writer_payload(sess) == utf8_encode(model_dump_json(sess))

\* header = f"Content-Length: {len(payload)}\r\n\r\n".encode("ascii")
writer_header(payload) == header_block(Decimal(Len(payload)))

\* the writes a careless writer would issue: header and payload apart
split_writes(header, payload) == <<header, payload>>

\* await a_stdout.write(header + payload): one write of both
writes_of(header, payload) == <<header \o payload>>

\* a receive that hands out the newest waiting message
receive_newest(q) == [item |-> q[Len(q)], rest |-> SubSeq(q, 1, Len(q) - 1)]

\* the next item of "async for sess in write_recv": senders suspended on the
\* capacity-0 stream are served first come, first served
receive(q) == [item |-> Head(q), rest |-> Tail(q)]

\* a writer that ends without closing write_recv: suspended senders stay
\* suspended and later sends suspend too
writer_ends_open(exc) ==
    /\ writer_pc' = "done"
    /\ writer_raised' = exc
    /\ write_chan' = write_chan
    /\ write_recv_open' = write_recv_open
    /\ log' = log \o (IF exc = "" THEN <<>> ELSE Logged("Writer error", <<exc>>))

\* the writer leaves "async with write_recv" (by the end of the stream, exc
\* "", or by the exception exc, which "except Exception" logs): write_recv
\* is closed and senders still suspended on the stream fail with
\* BrokenResourceError
writer_ends(exc) ==
    /\ writer_pc' = "done"
    /\ writer_raised' = exc
    /\ write_chan' = <<>>
    /\ write_recv_open' = FALSE
    /\ log' = log \o (IF exc = "" THEN <<>> ELSE Logged("Writer error", <<exc>>))

\* the session submits a message: write_stream.send(...) suspends until the
\* writer receives it, or raises BrokenResourceError at once when write_recv
\* is closed
session_send(m) ==
    /\ loop_free
    /\ ~write_closed
    /\ Len(submitted) < MaxOut
    /\ submitted' = Append(submitted, m)
    /\ IF write_recv_open
       THEN /\ write_chan' = Append(write_chan, m)
            /\ UNCHANGED send_broken
       ELSE /\ send_broken' = send_broken + 1
            /\ UNCHANGED write_chan
    /\ UNCHANGED <<write_closed, writer_pc, stdout, flushed, writer_raised,
                   write_recv_open>>
    /\ UNCHANGED <<rvars, stdin_eof, gvars>>
    /\ UNCHANGED svars

\* the session has seen the end of the inbound channel: run returns and the
\* send end of write_stream is closed
session_close ==
    /\ loop_free
    /\ send_closed
    /\ ~write_closed
    /\ write_closed' = TRUE
    /\ UNCHANGED <<write_chan, writer_pc, stdout, flushed, submitted,
                   writer_raised, write_recv_open, send_broken>>
    /\ UNCHANGED <<rvars, stdin_eof, gvars>>
    /\ UNCHANGED svars

\* the writer receives a message, builds the frame and writes it; the write
\* may fail (the sink is closed or broken)
writer_write ==
    /\ writer_pc = "receive"
    /\ loop_free
    /\ write_chan # <<>>
    /\ LET sess == receive(write_chan).item
           payload == writer_payload(sess)
           header == writer_header(payload)
       IN  \E ok \in BOOLEAN :
             IF ok
             THEN /\ stdout' = stdout \o writes_of(header, payload)
                  /\ writer_pc' = "written"
                  /\ write_chan' = receive(write_chan).rest
                  /\ UNCHANGED <<writer_raised, log, write_recv_open>>
             ELSE /\ writer_ends("BrokenPipeError")
                  /\ UNCHANGED stdout
    /\ UNCHANGED <<write_closed, flushed, submitted, send_broken>>
    /\ UNCHANGED <<segs, stdin, pc, headers, length, returned, raised, sending,
                   send_closed, received, pending, running, completed>>
    /\ UNCHANGED <<stdin_eof, gvars>>
    /\ UNCHANGED svars

\* await a_stdout.flush(), which may fail too
writer_flush ==
    /\ writer_pc = "written"
    /\ loop_free
    /\ \E ok \in BOOLEAN :
         IF ok
         THEN /\ flushed' = Len(stdout)
              /\ writer_pc' = "receive"
              /\ UNCHANGED <<write_chan, writer_raised, log, write_recv_open>>
         ELSE /\ writer_ends("BrokenPipeError")
              /\ UNCHANGED flushed
    /\ UNCHANGED <<write_closed, stdout, submitted, send_broken>>
    /\ UNCHANGED <<segs, stdin, pc, headers, length, returned, raised, sending,
                   send_closed, received, pending, running, completed>>
    /\ UNCHANGED <<stdin_eof, gvars>>
    /\ UNCHANGED svars

\* the async for ends: every send end is closed and nothing is waiting
writer_end_of_stream ==
    /\ writer_pc = "receive"
    /\ loop_free
    /\ write_chan = <<>>
    /\ write_closed
    /\ writer_ends("")
    /\ UNCHANGED <<write_closed, stdout, flushed, submitted, send_broken>>
    /\ UNCHANGED <<segs, stdin, pc, headers, length, returned, raised, sending,
                   send_closed, received, pending, running, completed>>
    /\ UNCHANGED <<stdin_eof, gvars>>
    /\ UNCHANGED svars

\* the peer closes its end of the server's stdin
close_stdin ==
    /\ ~stdin_eof
    /\ stdin_eof' = TRUE
    /\ UNCHANGED <<rvars, wvars, gvars>>
    /\ UNCHANGED svars

\* inputs of the whole transport: a few bytes are in the pipe, the peer has
\* not closed it yet
TSegments ==
    { Seg("frame", encode(p), p) : p \in {<<"{", "}">>, <<"a">>} }
    \cup { Seg("noise", <<"J", "U", "N", "K", LF>>, <<>>) }
    \cup { Seg("header", header_block(v), v) : v \in {<<"3">>, <<"-", "2">>} }
TInputs == SeqsUpTo(TSegments, MaxTSegs)

TransportInit ==
    /\ segs \in TInputs
    /\ stdin = Flatten(segs)
    /\ stdin_eof = FALSE
    /\ reader_start
    /\ writer_start
    /\ guard_start
    /\ plan = <<>>
    /\ store = "up"
    /\ store_start

TransportNext ==
    \/ read_packet_readline
    \/ read_packet_read
    \/ dispatcher_receive
    \/ handler_call
    \/ handler_return
    \/ \E m \in OutMessages : session_send(m)
    \/ session_close
    \/ writer_write
    \/ writer_flush
    \/ writer_end_of_stream
    \/ close_stdin

TransportSpec == TransportInit /\ [][TransportNext]_vars

\* the steps the program takes by itself: the tasks of the event loop, the
\* dispatcher's receive and a started handler's return
TransportProgress ==
    \/ read_packet_readline
    \/ read_packet_read
    \/ dispatcher_receive
    \/ handler_call
    \/ handler_return
    \/ session_close
    \/ writer_write
    \/ writer_flush
    \/ writer_end_of_stream

\* asyncio.run keeps running while some task is ready to run; nothing
\* obliges the peer to close stdin or the session to send
TransportFair == TransportSpec /\ WF_vars(TransportProgress)

-----------------------------------------------------------------------------
(* Vocabulary of the properties of the writer *)

RECURSIVE Concat(_)
Concat(chunks) ==
    IF chunks = <<>> THEN <<>> ELSE Head(chunks) \o Concat(Tail(chunks))

StartsWith(b, prefix) ==
    /\ Len(b) >= Len(prefix)
    /\ SubSeq(b, 1, Len(prefix)) = prefix

\* how many decimal digits b starts with
RECURSIVE LeadingDigits(_)
LeadingDigits(b) ==
    IF b # <<>> /\ Head(b) \in Digits THEN 1 + LeadingDigits(Tail(b)) ELSE 0

Malformed == [ok |-> FALSE, payloads |-> <<>>]

\* a strict reading of a byte string as complete frames, each exactly
\* "Content-Length: N" CR LF CR LF followed by N bytes, N in plain decimal:
\* ok tells whether the whole string reads so, payloads are the N-byte bodies
RECURSIVE ParseFrames(_)
ParseFrames(b) ==
    IF b = <<>> THEN [ok |-> TRUE, payloads |-> <<>>]
    ELSE LET pre == ContentLengthName \o <<COLON, SP>>
         IN  IF ~StartsWith(b, pre) THEN Malformed
             ELSE LET r == Drop(b, Len(pre))
                      nd == LeadingDigits(r)
                      ds == SubSeq(r, 1, nd)
                      after == Drop(r, nd)
                  IN  IF nd = 0 \/ ds # Decimal(DecValue(ds))
                           \/ ~StartsWith(after, <<CR, LF, CR, LF>>)
                      THEN Malformed
                      ELSE LET n == DecValue(ds)
                               body == Drop(after, 4)
                           IN  IF Len(body) < n THEN Malformed
                               ELSE LET rest == ParseFrames(Drop(body, n))
                                    IN  [ok |-> rest.ok,
                                         payloads |-> <<SubSeq(body, 1, n)>>
                                                      \o rest.payloads]

\* the payloads of the frames in everything written so far
written_payloads == ParseFrames(Concat(stdout)).payloads

-----------------------------------------------------------------------------
\* C11: termination of either transport loop starts the shutdown of the
\* other: once the writer has terminated the reader eventually terminates,
\* and once the reader has terminated the writer eventually terminates,
\* without further input or further outbound messages being needed.
C11_EitherEndsBoth ==
    /\ (writer_pc = "done") ~> (pc = "done")
    /\ (pc = "done") ~> (writer_pc = "done")

\* C12: when the input has reached end-of-stream the reader loop eventually
\* terminates, and whenever the reader has terminated the send end of the
\* inbound channel is closed (the dispatcher sees the end of the input).
C12_EofEndsReader ==
    /\ (stdin_eof /\ stdin = <<>>) ~> (pc = "done")
    /\ [](pc = "done" => send_closed)

\* the reader has read a frame, handed it to the dispatcher, then met the end
\* of the stream, left its loop by the break and closed the channel
C12_Witness ==
    /\ pc = "done"
    /\ send_closed
    /\ stdin_eof
    /\ stdin = <<>>
    /\ raised = ""
    /\ received # <<>>
    /\ Last(returned) = None

\* C13: outbound messages are written in the order in which they were
\* submitted to the writer channel: the frames in the output are, one by
\* one and in order, the frames of the first messages submitted.
C13_WrittenInOrder ==
    /\ Len(written_payloads) <= Len(submitted)
    /\ \A i \in 1..Len(written_payloads) :
          written_payloads[i] = utf8_encode(model_dump_json(submitted[i]))

\* two different messages were submitted and both were written and flushed
C13_Witness ==
    /\ Len(stdout) = 2
    /\ flushed = 2
    /\ submitted[1] # submitted[2]

\* C14: in every reachable state the bytes written to the output are a
\* concatenation of complete frames "Content-Length: N" CR LF CR LF +
\* payload with N the byte length of the payload; each frame is one write
\* of header plus payload, and a flush follows it before the next receive.
C14_WellFormedOutput ==
    /\ ParseFrames(Concat(stdout)).ok
    /\ \A i \in 1..Len(stdout) :
          /\ ParseFrames(stdout[i]).ok
          /\ Len(ParseFrames(stdout[i]).payloads) = 1
    /\ flushed <= Len(stdout)
    /\ writer_pc = "receive" => flushed = Len(stdout)

\* a message whose text has fewer characters than its payload has bytes was
\* written and flushed after another message
C14_Witness ==
    /\ flushed >= 2
    /\ model_dump_json(submitted[2]) = <<"{", "U+00E9", "}">>
    /\ Len(stdout[2]) = Len(header_block(<<"4">>)) + 4

-----------------------------------------------------------------------------
(* The lazily loaded embedding model: the global _embed_model and          *)
(* _get_embed_model, called by the tool handlers that need an embedding    *)
(* (through _embed_text).  A tool handler is a plain def: from its call to *)
(* its return it occupies the event-loop thread.  A caller is at           *)
(*   "idle"      its tool call has not started                             *)
(*   "called"    in _get_embed_model, before "if _embed_model is None"     *)
(*   "loading"   inside SentenceTransformer(EMBED_MODEL_NAME)              *)
(*   "returned"  _get_embed_model returned the model                       *)
(*   "raised"    _get_embed_model raised                                   *)
(*   "done"      the tool handler has returned                             *)
(* How a call of SentenceTransformer ends is the environment's choice      *)
(* (network, disk, model name): plan[n] tells it for the n-th call.        *)

MaxLoads == 3

TimeoutError == "TimeoutError"
LoadErrors == {TimeoutError, "ValueError"}
LoadOutcomes == {"ok"} \cup LoadErrors

LoadPlans == [1..MaxLoads -> LoadOutcomes]

\* a call of the constructor that never returns (a download that stalls)
Hang == "hang"
HangPlans == [1..MaxLoads -> LoadOutcomes \cup {Hang}]

\* the SentenceTransformer object the n-th call constructs
Handle(n) == [model |-> n]

\* "return _embed_model"
Returned(m) == [kind |-> "model", handle |-> m]
Raised(exc) == [kind |-> "raise", exc |-> exc]

\* a guard that loads on every call
always_load(m) == TRUE

\* "if _embed_model is None"
needs_load(m) == m = NoModel

\* an error of the constructor reported as another error
wrapped(exc) == "RuntimeError"

\* the constructor is called outside any try: its exception leaves
\* _get_embed_model as it is
propagated(exc) == exc

\* a guard that remembers the failure in the global
sticky_failure(m, exc) == [model |-> 0 - 1]

\* a constructor whose object is stored in the global before the error is
\* reported
leaked_model(m, exc) == [model |-> 1]

\* the global after the constructor raised: the assignment did not happen
failed_model(m, exc) == m

\* the tool handler of caller c starts executing on the event-loop thread
\* and reaches _get_embed_model
tool_call(c) ==
    /\ call_pc[c] = "idle"
    /\ loop_free
    /\ running' = TRUE
    /\ call_pc' = [call_pc EXCEPT ![c] = "called"]
    /\ started' = [started EXCEPT ![c] = loads]
    /\ UNCHANGED <<embed_model, loads, loading, outcome, tried, sleeps, plan>>
    /\ UNCHANGED <<segs, stdin, pc, headers, length, returned, raised, sending,
                   send_closed, log, received, pending, completed>>
    /\ UNCHANGED <<stdin_eof, wvars>>
    /\ UNCHANGED svars

\* "if _embed_model is None": start the load, or return the cached model
get_embed_model(c) ==
    /\ call_pc[c] = "called"
    /\ IF needs_load(embed_model)
       THEN /\ loads < MaxLoads
            /\ loads' = loads + 1
            /\ loading' = loading \cup {<<c, loads + 1>>}
            /\ call_pc' = [call_pc EXCEPT ![c] = "loading"]
            /\ log' = log \o Logged("Loading embedding model", <<>>)
            /\ UNCHANGED outcome
       ELSE /\ outcome' = [outcome EXCEPT ![c] = Returned(embed_model)]
            /\ call_pc' = [call_pc EXCEPT ![c] = "returned"]
            /\ UNCHANGED <<loads, loading, log>>
    /\ UNCHANGED <<embed_model, tried, sleeps, started, plan>>
    /\ UNCHANGED <<segs, stdin, pc, headers, length, returned, raised, sending,
                   send_closed, received, pending, running, completed>>
    /\ UNCHANGED <<stdin_eof, wvars>>
    /\ UNCHANGED svars

\* SentenceTransformer(EMBED_MODEL_NAME) ends: the model is assigned to the
\* global and returned, or the exception leaves _get_embed_model
load_ends(c) ==
    /\ call_pc[c] = "loading"
    /\ \E ld \in loading :
         /\ ld[1] = c
         /\ plan[ld[2]] # Hang
         /\ loading' = loading \ {ld}
         /\ tried' = [tried EXCEPT ![c] = Append(@, plan[ld[2]])]
         /\ IF plan[ld[2]] = "ok"
            THEN /\ embed_model' = Handle(ld[2])
                 /\ outcome' = [outcome EXCEPT ![c] = Returned(Handle(ld[2]))]
                 /\ call_pc' = [call_pc EXCEPT ![c] = "returned"]
                 /\ log' = log \o Logged("Embedding model loaded successfully", <<>>)
            ELSE /\ embed_model' = failed_model(embed_model, plan[ld[2]])
                 /\ outcome' = [outcome EXCEPT
                                  ![c] = Raised(propagated(plan[ld[2]]))]
                 /\ call_pc' = [call_pc EXCEPT ![c] = "raised"]
                 /\ UNCHANGED log
    /\ UNCHANGED <<loads, sleeps, started, plan>>
    /\ UNCHANGED <<segs, stdin, pc, headers, length, returned, raised, sending,
                   send_closed, received, pending, running, completed>>
    /\ UNCHANGED <<stdin_eof, wvars>>
    /\ UNCHANGED svars

\* the tool handler returns (with its result or with the error) and frees
\* the event-loop thread
tool_return(c) ==
    /\ call_pc[c] \in {"returned", "raised"}
    /\ running' = FALSE
    /\ completed' = completed + 1
    /\ call_pc' = [call_pc EXCEPT ![c] = "done"]
    /\ UNCHANGED <<embed_model, loads, loading, outcome, tried, sleeps,
                   started, plan>>
    /\ UNCHANGED <<segs, stdin, pc, headers, length, returned, raised, sending,
                   send_closed, log, received, pending>>
    /\ UNCHANGED <<stdin_eof, wvars>>
    /\ UNCHANGED svars

\* no transport traffic; the constructor's behaviour is any plan
GuardInit ==
    /\ segs = <<>>
    /\ stdin = <<>>
    /\ stdin_eof = FALSE
    /\ reader_start
    /\ writer_start
    /\ guard_start
    /\ plan \in LoadPlans
    /\ store = "up"
    /\ store_start

GuardNext ==
    \E c \in Callers :
        \/ tool_call(c)
        \/ get_embed_model(c)
        \/ load_ends(c)
        \/ tool_return(c)

GuardSpec == GuardInit /\ [][GuardNext]_vars

\* the same guard when the constructor may also never return
GuardHangInit ==
    /\ segs = <<>>
    /\ stdin = <<>>
    /\ stdin_eof = FALSE
    /\ reader_start
    /\ writer_start
    /\ guard_start
    /\ plan \in HangPlans
    /\ store = "up"
    /\ store_start

\* what the event-loop thread does by itself once a tool call has started;
\* when a tool is called is the client's choice
GuardProgress ==
    \E c \in Callers :
        \/ get_embed_model(c)
        \/ load_ends(c)
        \/ tool_return(c)

GuardFair == GuardHangInit /\ [][GuardNext]_vars /\ WF_vars(GuardProgress)

-----------------------------------------------------------------------------
(* Vocabulary of the properties of the embedding model *)

\* the attempt budget and the timeout the retry logic is documented with
MaxAttempts == 3
EmbedLoadTimeout == 300

\* "Failed to load embedding model after 3 attempts (timeout: ...s)"
ExhaustionError ==
    [type |-> "RuntimeError", attempts |-> MaxAttempts,
     timeout |-> EmbedLoadTimeout]

\* the call of _get_embed_model by caller c has ended
finished(c) == call_pc[c] \in {"returned", "raised", "done"}

\* no call of the constructor before c's tool call succeeded: _embed_model
\* was None when c called _get_embed_model
uninitialized_at_call(c) == \A i \in 1..started[c] : plan[i] # "ok"

\* the i-th call of the constructor from c's tool call on ends so
faces(c, i) == plan[started[c] + i]

\* the backoff of attempt index i (0-based): 2^i seconds
Backoff(i) == 2 ^ i

\* C15: when every initialization attempt times out, one acquisition makes
\* exactly 3 attempts, sleeps 1 s after the first and 2 s after the second
\* failed attempt and at no other time, and then raises the exhaustion error
\* that reports the 3 attempts and the configured timeout.
C15_RetryThenExhaust ==
    \A c \in Callers :
        ( /\ finished(c)
          /\ uninitialized_at_call(c)
          /\ started[c] + MaxAttempts <= MaxLoads
          /\ \A i \in 1..MaxAttempts : faces(c, i) = TimeoutError )
        => ( /\ tried[c] = [i \in 1..MaxAttempts |-> TimeoutError]
             /\ sleeps[c] = [i \in 1..(MaxAttempts - 1) |-> Backoff(i - 1)]
             /\ outcome[c] = Raised(ExhaustionError) )

\* C16: if the initialization raises a non-timeout error, exactly one
\* attempt is made, no backoff sleep happens and that same error reaches the
\* caller.
C16_ErrorNotRetried ==
    \A c \in Callers :
        ( /\ finished(c)
          /\ uninitialized_at_call(c)
          /\ started[c] + 1 <= MaxLoads
          /\ faces(c, 1) \in LoadErrors \ {TimeoutError} )
        => ( /\ tried[c] = <<faces(c, 1)>>
             /\ sleeps[c] = <<>>
             /\ outcome[c] = Raised(faces(c, 1)) )

\* a ValueError of the constructor reached a caller whose tool call has ended
C16_Witness ==
    \E c \in Callers :
        /\ call_pc[c] = "done"
        /\ tried[c] = <<"ValueError">>
        /\ outcome[c] = Raised("ValueError")

\* C17: if an attempt succeeds after k-1 timed-out attempts (k <= 3), the
\* acquisition makes exactly k attempts, sleeps only 2^0 .. 2^(k-2) seconds
\* between them, raises nothing and returns the loaded handle.
C17_SuccessStopsRetry ==
    \A c \in Callers : \A k \in 1..MaxAttempts :
        ( /\ finished(c)
          /\ uninitialized_at_call(c)
          /\ started[c] + k <= MaxLoads
          /\ \A i \in 1..(k - 1) : faces(c, i) = TimeoutError
          /\ faces(c, k) = "ok" )
        => ( /\ Len(tried[c]) = k
             /\ sleeps[c] = [i \in 1..(k - 1) |-> Backoff(i - 1)]
             /\ outcome[c] = Returned(Handle(started[c] + k)) )

\* C18: once the model is loaded, every later call of _get_embed_model
\* returns that same handle and the initialization is never invoked again.
C18_ReadyIsIdempotent ==
    [][ embed_model # NoModel
        => ( /\ embed_model' = embed_model
             /\ loads' = loads
             /\ \A c \in Callers :
                   (outcome[c] = NoOutcome /\ outcome'[c] # NoOutcome)
                   => outcome'[c] = Returned(embed_model) ) ]_vars

\* one caller loaded the model and two later callers got it from the global
C18_Witness ==
    /\ embed_model # NoModel
    /\ loads = 1
    /\ \A c \in Callers : call_pc[c] = "done" /\ outcome[c] = Returned(embed_model)
    /\ Cardinality({c \in Callers : tried[c] = <<>>}) = MaxCallers - 1

C20_FailureNotSticky ==
    \A c \in Callers :
        ( /\ finished(c)
          /\ started[c] >= 1
          /\ uninitialized_at_call(c)
          /\ faces(c, 1) = "ok" )
        => ( /\ tried[c] = <<"ok">>
             /\ outcome[c] = Returned(Handle(started[c] + 1))
             /\ embed_model = Handle(started[c] + 1) )

\* two acquisitions failed, one by a timeout, and a third request loaded the
\* model
C20_Witness ==
    \E c \in Callers :
        /\ call_pc[c] = "done"
        /\ started[c] = 2
        /\ outcome[c] = Returned(embed_model)
        /\ tried[c] = <<"ok">>
        /\ \E d \in Callers : outcome[d] = Raised(TimeoutError)

\* C21: an initialization attempt that ends with TimeoutError (or any other
\* error) leaves no handle visible: right after it the global is still unset,
\* and neither the global nor any caller ever holds the object of an attempt
\* that was reported as failed.
C21_FailedLeavesNoHandle ==
    /\ \A c \in Callers : call_pc[c] = "raised" => embed_model = NoModel
    /\ embed_model # NoModel => plan[embed_model.model] = "ok"
    /\ \A c \in Callers :
          outcome[c].kind = "model" => plan[outcome[c].handle.model] = "ok"

\* a second acquisition has just ended with a timeout, after a first one
\* failed too
C21_Witness ==
    \E c \in Callers :
        /\ call_pc[c] = "raised"
        /\ started[c] = 1
        /\ tried[c] = <<TimeoutError>>
        /\ outcome[c] = Raised(TimeoutError)

\* C22: every acquisition terminates: even when the initialization never
\* returns, the attempt ends with a timeout, and the call of _get_embed_model
\* returns a handle or raises after at most 3 attempts.
C22_AcquisitionTerminates ==
    \A c \in Callers :
        (call_pc[c] = "called") ~> (finished(c) /\ Len(tried[c]) <= MaxAttempts)

-----------------------------------------------------------------------------
(* The optional store.  main first awaits _check_redis_connection, which   *)
(* pings the server once in an executor thread and sets the globals        *)
(* MEMORY_ENABLED and redis_client; then it enters _stdio_server, where    *)
(* the reader feeds the dispatcher and the dispatcher runs one tool        *)
(* handler per request, inline on the event-loop thread.  probe_pc is      *)
(*   "idle"     _check_redis_connection not yet called                     *)
(*   "pinging"  awaiting run_in_executor(None, redis_client.ping)          *)
(*   "done"     _check_redis_connection has returned or raised             *)
(* What the server answers is the environment's choice and can change at   *)
(* any time.                                                               *)

MaxReqs == 2

Stores == {"up", "refused", "timeout", "auth"}

\* how a command sent to the server ends: "" for a reply, or the error of
\* redis-py
command_exc(st) ==
    CASE st = "up" -> ""
      [] st = "refused" -> "redis.ConnectionError"
      [] st = "timeout" -> "redis.TimeoutError"
      [] st = "auth" -> "redis.AuthenticationError"

\* a probe that handles refused connections only
caught_connection_only(exc) == exc = "redis.ConnectionError"

\* "except Exception as e": every error of the ping is handled
caught(exc) == TRUE

\* a probe started as a background task, which main does not wait for
in_background(p) == p # "idle"

\* "await _check_redis_connection()" comes before "async with
\* _stdio_server()": the transport starts when the probe has returned
awaited(p) == p = "done"

\* "if not MEMORY_ENABLED or not redis_client" is false
store_enabled(flag, client) == flag /\ client # NoClient

NotEnabled == "RuntimeError: Redis memory is not enabled."

\* the tools that need no store, and those that begin with the guard
IndependentTools == {"ping", "echo", "server_status", "column_stats", "math_eval"}
StoreTools ==
    {"set_memory", "get_memory", "delete_memory", "list_memory_keys",
     "index_project_files", "index_single_file", "search_indexed_files",
     "save_agent_snapshot", "load_agent_snapshot", "list_agent_snapshots",
     "delete_agent_snapshot", "clear_all_agent_snapshots",
     "semantic_search_files", "semantic_search_agents",
     "queue_task", "get_next_task", "finish_task", "task_history",
     "clear_task_history"}
Tools == IndependentTools \cup StoreTools

\* what a handler does after its guard: commands to the store ("store") and
\* calls of _embed_text ("embed"), in the order of the code
body(t) ==
    CASE t \in IndependentTools -> <<>>
      [] t \in {"index_single_file", "save_agent_snapshot"} ->
             <<"store", "embed", "store">>
      [] t \in {"semantic_search_files", "semantic_search_agents"} ->
             <<"embed", "store">>
      [] OTHER -> <<"store">>

\* handlers that all begin with the guard
guard_everywhere(t) == <<"guard">> \o body(t)

\* handlers without the guard
guard_nowhere(t) == body(t)

\* the steps of the function the decorator wraps
handler_steps(t) ==
    IF t \in StoreTools THEN <<"guard">> \o body(t) ELSE body(t)

\* how one step ends: "" or the exception it raises
step_exc(stp, flag, client, st, emb) ==
    CASE stp = "guard" -> IF store_enabled(flag, client) THEN "" ELSE NotEnabled
      [] stp = "store" -> IF client = NoClient
                          THEN "AttributeError"
                          ELSE command_exc(st)
      [] stp = "embed" -> IF emb = "ok" THEN "" ELSE emb

\* the steps executed up to and including the first that raises
run_steps(steps, flag, client, st, emb) ==
    LET bad == { i \in 1..Len(steps) :
                   step_exc(steps[i], flag, client, st, emb) # "" }
        k == IF bad = {} THEN Len(steps)
             ELSE CHOOSE i \in bad : \A j \in bad : i <= j
    IN [steps |-> SubSeq(steps, 1, k),
        exc |-> IF bad = {} THEN ""
                ELSE step_exc(steps[k], flag, client, st, emb)]

\* the value a tool returns when nothing raised
tool_value(t, flag) ==
    CASE t = "ping" -> [text |-> "pong", memory_enabled |-> "", redis_config |-> ""]
      [] t = "server_status" ->
             [text |-> "RuntimeV3",
              memory_enabled |-> IF flag THEN "True" ELSE "False",
              redis_config |-> IF flag THEN "host, port, db" ELSE "None"]
      [] OTHER -> [text |-> t, memory_enabled |-> "", redis_config |-> ""]

\* _log_tool_call: skipped without the store, else one SET whose error is
\* dropped ("except Exception: pass")
log_steps(flag, client) ==
    IF store_enabled(flag, client) THEN <<"log">> ELSE <<>>

\* wrapper of _auto_logging_decorator: "finally: return func(...)"
tool_outcome(t, flag, client, st, emb) ==
    LET r == run_steps(handler_steps(t), flag, client, st, emb)
    IN [tool |-> t,
        steps |-> log_steps(flag, client) \o r.steps,
        result |-> IF r.exc = ""
                   THEN [kind |-> "ok", value |-> tool_value(t, flag)]
                   ELSE [kind |-> "raise", exc |-> r.exc]]

\* main calls _check_redis_connection, which hands redis_client.ping to an
\* executor thread and waits for it
check_redis_start ==
    /\ probe_pc = "idle"
    /\ loop_free
    /\ probe_pc' = "pinging"
    /\ pings' = pings + 1
    /\ UNCHANGED <<store, ping_result, MEMORY_ENABLED, redis_client,
                   transport_up, main_raised, last>>
    /\ UNCHANGED <<rvars, stdin_eof, wvars, gvars>>

\* the ping ends: on a reply the flag is set; on an error the except clause
\* drops the client and clears the flag
check_redis_ends ==
    /\ probe_pc = "pinging"
    /\ loop_free
    /\ probe_pc' = "done"
    /\ \E exc \in {command_exc(store)} :
         /\ ping_result' = IF exc = "" THEN "PONG" ELSE exc
         /\ IF exc = ""
            THEN /\ MEMORY_ENABLED' = TRUE
                 /\ log' = log \o Logged("Redis connected", <<>>)
                 /\ UNCHANGED <<redis_client, main_raised>>
            ELSE IF caught(exc)
            THEN /\ redis_client' = NoClient
                 /\ MEMORY_ENABLED' = FALSE
                 /\ log' = log \o Logged("Redis not available", exc)
                 /\ UNCHANGED main_raised
            ELSE /\ main_raised' = exc
                 /\ UNCHANGED <<MEMORY_ENABLED, redis_client, log>>
    /\ UNCHANGED <<store, transport_up, pings, last>>
    /\ UNCHANGED <<segs, stdin, pc, headers, length, returned, raised, sending,
                   send_closed, received, pending, running, completed>>
    /\ UNCHANGED <<stdin_eof, wvars, gvars>>

\* main logs its banner and enters "async with _stdio_server()": the reader
\* and the writer are started
stdio_server_enter ==
    /\ ~transport_up
    /\ awaited(probe_pc)
    /\ main_raised = ""
    /\ loop_free
    /\ transport_up' = TRUE
    /\ log' = log \o Logged("Memory enabled", MEMORY_ENABLED)
    /\ UNCHANGED <<store, probe_pc, ping_result, MEMORY_ENABLED, redis_client,
                   main_raised, pings, last>>
    /\ UNCHANGED <<segs, stdin, pc, headers, length, returned, raised, sending,
                   send_closed, received, pending, running, completed>>
    /\ UNCHANGED <<stdin_eof, wvars, gvars>>

\* the reader and the dispatcher, once the transport is up
serving_readline == transport_up /\ read_packet_readline
serving_read == transport_up /\ read_packet_read
serving_receive == transport_up /\ dispatcher_receive

\* a handler that turns the store off when it raised
disabled_on_error(flag, result) == flag /\ result.kind # "raise"

\* the tool functions only read MEMORY_ENABLED (none declares it global)
flag_after_call(flag, result) == flag

\* the dispatcher runs the handler of tool t for a received request: the
\* logging wrapper, then the function, to its return or its exception
tool_handler(t) ==
    /\ transport_up
    /\ pending > 0
    /\ loop_free
    /\ pending' = pending - 1
    /\ completed' = completed + 1
    /\ \E emb \in (IF embed_model = NoModel THEN {"ok", TimeoutError} ELSE {"ok"}) :
       \E o \in {tool_outcome(t, MEMORY_ENABLED, redis_client, store, emb)} :
         /\ last' = o
         /\ MEMORY_ENABLED' = flag_after_call(MEMORY_ENABLED, o.result)
         /\ IF embed_model = NoModel /\ \E i \in 1..Len(o.steps) : o.steps[i] = "embed"
            THEN /\ loads' = loads + 1
                 /\ embed_model' = IF emb = "ok"
                                   THEN Handle(loads + 1)
                                   ELSE failed_model(embed_model, emb)
            ELSE UNCHANGED <<loads, embed_model>>
    /\ UNCHANGED <<store, probe_pc, ping_result, redis_client, transport_up,
                   main_raised, pings>>
    /\ UNCHANGED <<segs, stdin, pc, headers, length, returned, raised, sending,
                   send_closed, log, received, running>>
    /\ UNCHANGED <<call_pc, loading, outcome, tried, sleeps, started, plan>>
    /\ UNCHANGED <<stdin_eof, wvars>>

\* the server goes down, comes up or changes how it fails
store_changes ==
    /\ \E st \in Stores \ {store} : store' = st
    /\ UNCHANGED <<probe_pc, ping_result, MEMORY_ENABLED, redis_client,
                   transport_up, main_raised, pings, last>>
    /\ UNCHANGED <<rvars, stdin_eof, wvars, gvars>>

\* requests: up to MaxReqs framed messages, already in the pipe
ReqSegments == { Seg("frame", encode(p), p) : p \in {<<"{", "}">>} }
ReqInputs == SeqsUpTo(ReqSegments, MaxReqs)

StoreInit ==
    /\ segs \in ReqInputs
    /\ stdin = Flatten(segs)
    /\ stdin_eof = TRUE
    /\ reader_start
    /\ writer_start
    /\ guard_start
    /\ plan = <<>>
    /\ store \in Stores
    /\ store_start

StoreNext ==
    \/ check_redis_start
    \/ check_redis_ends
    \/ stdio_server_enter
    \/ serving_readline
    \/ serving_read
    \/ serving_receive
    \/ \E t \in Tools : tool_handler(t)
    \/ store_changes

StoreSpec == StoreInit /\ [][StoreNext]_vars

-----------------------------------------------------------------------------
(* Properties of the store probe and of the tool handlers *)

\* C23: the startup probe never raises to its caller: if the ping succeeds
\* the flag becomes enabled, on any failure of the ping (timeout, refused
\* connection, authentication error) the flag is disabled, and startup
\* continues into the stdio transport.
C23_ProbeNeverRaises ==
    /\ main_raised = ""
    /\ probe_pc = "done" =>
          /\ MEMORY_ENABLED <=> ping_result = "PONG"
          /\ transport_up \/ ENABLED stdio_server_enter

\* after a ping that failed on authentication the transport is up and a
\* request was served
C23_Witness ==
    /\ ping_result = "redis.AuthenticationError"
    /\ ~MEMORY_ENABLED
    /\ transport_up
    /\ completed = 1

\* C24: the startup probe does not block acceptance of the first inbound
\* frame: while the probe is still in flight the transport can start and
\* the reader loop can begin reading the input.
C24_ProbeOffStartupPath ==
    probe_pc = "pinging" =>
        IF transport_up
        THEN pc = "readline" => ENABLED serving_readline
        ELSE ENABLED stdio_server_enter

\* C25: no store-dependent request is served while the probe is undecided:
\* whenever a store-dependent handler runs the probe has completed, and until
\* the probe has succeeded the flag is disabled and store-dependent handlers
\* fail with the "not enabled" error.
C25_NoStoreRequestBeforeProbe ==
    [][ /\ ping_result' # "PONG" => ~MEMORY_ENABLED'
        /\ (completed' # completed /\ last'.tool \in StoreTools)
           => /\ probe_pc = "done"
              /\ ping_result # "PONG"
                 => last'.result = [kind |-> "raise", exc |-> NotEnabled] ]_vars

\* the first request is a store-dependent one, served after a probe that was
\* refused
C25_Witness ==
    /\ probe_pc = "done"
    /\ ping_result = "redis.ConnectionError"
    /\ completed = 1
    /\ last.tool = "set_memory"
    /\ last.result = [kind |-> "raise", exc |-> NotEnabled]

\* C26: store availability is decided by exactly one probe per process run,
\* made during main's startup (not at import, not by a handler), and is
\* immutable afterwards: once the probe has finished no handler call and no
\* later event changes the flag, and the store is never probed again.
C26_DecidedOnce ==
    /\ pings = 0 /\ ~MEMORY_ENABLED
    /\ [][ /\ pings' <= 1
           /\ pings' # pings => probe_pc = "idle" /\ ~transport_up
           /\ probe_pc = "done"
              => /\ MEMORY_ENABLED' = MEMORY_ENABLED
                 /\ redis_client' = redis_client
                 /\ pings' = pings
                 /\ probe_pc' = "done" ]_vars

\* the probe succeeded, the server then went away and a store tool failed on
\* it: the flag is still set
C26_Witness ==
    /\ MEMORY_ENABLED
    /\ pings = 1
    /\ last.tool = "get_memory"
    /\ last.result = [kind |-> "raise", exc |-> "redis.ConnectionError"]

\* C27: when the store is unavailable, every store-dependent handler fails
\* with the same RuntimeError "Redis memory is not enabled." before any
\* store operation and before any embedding-model initialization, for every
\* such request.
C27_UniformNotEnabled ==
    ~store_enabled(MEMORY_ENABLED, redis_client)
    => /\ loads = 0 /\ embed_model = NoModel
       /\ last.tool \in StoreTools
          => /\ last.result = [kind |-> "raise", exc |-> NotEnabled]
             /\ last.steps = <<"guard">>

\* the probe failed and the server came up later: the last of the requests,
\* a semantic search, still fails at its guard
C27_Witness ==
    /\ probe_pc = "done"
    /\ ~MEMORY_ENABLED
    /\ store = "up"
    /\ completed = MaxReqs
    /\ last.tool = "semantic_search_files"
    /\ last.steps = <<"guard">>

\* C28: store-independent handlers (ping, echo, server_status, column_stats
\* and the other non-memory tools) return the same successful result whether
\* the store is available or not, including when the tool-call logging is
\* skipped or fails.
C28_IndependentSameResult ==
    last.tool \in IndependentTools
    => \A flag \in BOOLEAN :
          last.result = [kind |-> "ok", value |-> tool_value(last.tool, flag)]

\* C28 as amended: store-independent handlers succeed whether the store is
\* available or not, also when the tool-call logging is skipped or fails;
\* all of them but server_status return the same result in both cases, and
\* the result of server_status differs only in its report of the store
\* (memory_enabled, redis_config).
C28_IndependentUnaffected ==
    last.tool \in IndependentTools
    => /\ last.result.kind = "ok"
       /\ last.tool # "server_status"
          => \A flag \in BOOLEAN :
                last.result.value = tool_value(last.tool, flag)
       /\ last.tool = "server_status"
          => /\ \A flag \in BOOLEAN :
                   last.result.value.text = tool_value(last.tool, flag).text
             /\ last.result.value.memory_enabled =
                   IF MEMORY_ENABLED THEN "True" ELSE "False"

\* the store was available at startup and is down now: ping is logged (the
\* SET fails) and still answers pong
C28_Witness ==
    /\ MEMORY_ENABLED
    /\ store = "refused"
    /\ last.tool = "ping"
    /\ last.steps = <<"log">>
    /\ last.result.kind = "ok"
    /\ last.result.value.text = "pong"

-----------------------------------------------------------------------------
(* Properties of the two channels of the transport *)

\* the payloads read_packet returned that parsed as messages
decoded(rs) == SelectSeq(rs, LAMBDA r : ~r.none /\ parses(r.body))

\* C29: the inbound channel is a rendezvous channel: the reader does not
\* start reading the next frame until the dispatcher has received the
\* message of the previous one, so at most one decoded message is
\* undelivered at any time.
C29_Rendezvous ==
    [][ /\ Len(decoded(returned')) - Len(received') \in {0, 1}
        /\ Len(decoded(returned')) > Len(received') <=> pc' = "send"
        /\ stdin' # stdin => Len(decoded(returned)) = Len(received) ]_vars

\* the second message is decoded and waits for the dispatcher while a third
\* frame is in the input
C29_Witness ==
    /\ pc = "send"
    /\ Len(received) = 1
    /\ stdin # <<>>
    /\ \A i \in 1..Len(segs) : IsFrameSeg(segs[i])

\* C30: after the writer loop has ended for any reason (the outbound channel
\* closed by the dispatcher, or an error on some message), the receive end
\* of the outbound channel is closed: a later submit fails at once instead
\* of blocking, so no sender is suspended on a dead writer.
C30_DeadWriterRejects ==
    [][ /\ writer_pc' = "done" => ~write_recv_open' /\ write_chan' = <<>>
        /\ (writer_pc = "done" /\ submitted' # submitted)
           => send_broken' = send_broken + 1 ]_vars

\* the writer died on its first write, and the next message was submitted
\* after that and refused
C30_Witness ==
    /\ writer_pc = "done"
    /\ writer_raised = "BrokenPipeError"
    /\ stdout = <<>>
    /\ Len(submitted) = 2
    /\ send_broken = 1

=============================================================================
